---- MODULE Spec2Model ----
(***************************************************************************)
(* Model of the site-content cache client (src/src/client.ts): a two-tier  *)
(* read-through cache (memory + optional key-value storage) with freshness *)
(* windows, stale-while-revalidate, conditional revalidation by ETag and   *)
(* single-flight de-duplication of refreshes.                              *)
(*                                                                         *)
(* getPublished contains no await: a call runs to its return in one step,  *)
(* including the synchronous prefix of refresh() up to the fetch call.     *)
(* The completion of the fetch, the continuation of refresh() and the      *)
(* .finally() callback run in consecutive microtasks and form one step.    *)
(***************************************************************************)
EXTENDS Integers, FiniteSets, Sequences, TLC

\* ---- bounds of the model ------------------------------------------------
MaxTime == 4
NumCallers == 2
MaxRefreshes == 2
MaxClients == 2

\* ---- configuration of the client (options.maxAgeMs / options.staleWhileRevalidateMs)
maxAgeMs == 1
staleWhileRevalidateMs == 2

Callers == 1..NumCallers
Payloads == {"p1", "p2"}
Etags == {"e1", "e2"}
Undefined == "undefined"
Null == [null |-> TRUE]

\* ---- CacheEntry ---------------------------------------------------------
CacheEntry(v, f, m, s, e) ==
    [value |-> v, fetchedAtMs |-> f, maxAgeMs |-> m,
     staleWhileRevalidateMs |-> s, etag |-> e]

\* ---- strings held by the storage ----------------------------------------
\* getItem yields null (NoItem) or a string; a string is the empty string,
\* text that is not JSON, the JSON text "null", or the JSON text of an object
\* given by its key/value pairs in order.
NoItem == [t |-> "null", kv |-> << >>]
EmptyStr == [t |-> "empty", kv |-> << >>]
Garbage == [t |-> "garbage", kv |-> << >>]
JsonNull == [t |-> "jsonnull", kv |-> << >>]
\* the text of an object written with whitespace (not by JSON.stringify)
Pretty(raw) == [raw EXCEPT !.t = "pretty"]

\* JSON.stringify(entry): keys in insertion order, keys whose value is
\* undefined are omitted.
JSONstringify(entry) ==
    [t |-> "object",
     kv |-> (IF entry.value = Undefined THEN << >> ELSE << <<"value", entry.value>> >>)
            \o << <<"fetchedAtMs", entry.fetchedAtMs>>,
                  <<"maxAgeMs", entry.maxAgeMs>>,
                  <<"staleWhileRevalidateMs", entry.staleWhileRevalidateMs>> >>
            \o (IF entry.etag = Undefined THEN << >> ELSE << <<"etag", entry.etag>> >>)]

Lookup(kv, key) ==
    IF \E i \in 1..Len(kv) : kv[i][1] = key
    THEN kv[CHOOSE i \in 1..Len(kv) : kv[i][1] = key][2]
    ELSE Undefined

\* JSON.parse(raw) of an object text, read as a CacheEntry.
JSONparse(raw) ==
    CacheEntry(Lookup(raw.kv, "value"), Lookup(raw.kv, "fetchedAtMs"),
               Lookup(raw.kv, "maxAgeMs"), Lookup(raw.kv, "staleWhileRevalidateMs"),
               Lookup(raw.kv, "etag"))

safeJsonParse(raw) ==
    IF raw.t \in {"null", "empty"} THEN Null      \* if (!raw) return null
    ELSE IF raw.t = "garbage" THEN Null           \* JSON.parse throws, caught
    ELSE IF raw.t = "jsonnull" THEN Null          \* JSON.parse("null") is null
    ELSE JSONparse(raw)

VARIABLES
    now,        \* Date.now()
    storage,    \* TRUE iff the client has a storage (options.storage not null)
    broken,     \* the operations of the storage that throw: "get", "set", "remove"
    item,       \* what the storage holds under the client's key
    memory,     \* Null or the CacheEntry of the memory tier
    inFlight,   \* 0 (null) or the id of the recorded refresh handle
    refreshes,  \* the refreshes that have not settled
    callers,    \* per caller: idle, or waiting on a handle
    ret,        \* the last return/settlement observed by callers
    unhandled,  \* TRUE once a rejected promise had no handler attached
    clients     \* the clients created so far: options and the cache key computed

vars == <<now, storage, broken, item, memory, inFlight, refreshes, callers, ret, unhandled, clients>>

\* ---- freshness policy ---------------------------------------------------
isFresh_m(entry) == now < entry.fetchedAtMs + maxAgeMs
isFresh(entry) == now < entry.fetchedAtMs + entry.maxAgeMs

isWithinStaleWindow_m(entry) == now < entry.fetchedAtMs + entry.staleWhileRevalidateMs
isWithinStaleWindow_m2(entry) == TRUE
isWithinStaleWindow(entry) ==
    now < entry.fetchedAtMs + entry.maxAgeMs + entry.staleWhileRevalidateMs

\* ---- two-tier store -----------------------------------------------------
\* storage.getItem(key) throws: loadFromStorage has no try around it.
loadThrows_m == storage /\ ("get" \in broken \/ item.t = "garbage")
loadThrows == storage /\ "get" \in broken

loadFromStorage == IF ~storage THEN Null ELSE safeJsonParse(item)

\* the item after saveToStorage(entry); a throwing setItem is swallowed
saveToStorage_m(entry) == item
saveToStorage(entry) ==
    IF ~storage THEN item
    ELSE IF "set" \in broken THEN item
    ELSE JSONstringify(entry)

\* ---- results ------------------------------------------------------------
Result(d, src, e) == [ok |-> TRUE, data |-> d, source |-> src, etag |-> e]
Failure(err) == [ok |-> FALSE, error |-> err]
NoRet == [n |-> 0, immediate |-> FALSE, status |-> -1, res |-> Failure("none")]

Idle == [st |-> "idle", on |-> 0, force |-> FALSE]
Waiting(id, force) == [st |-> "waiting", on |-> id, force |-> force]

\* a call returns res without awaiting anything
Return(res) == [n |-> 1 - ret.n, immediate |-> TRUE, status |-> -1, res |-> res]

\* ---- initial states -----------------------------------------------------
\* Entries a previous instance (possibly with other durations) left behind.
InitEntries ==
    { CacheEntry(v, 0, d[1], d[2], e) :
        v \in {"p1"}, e \in {"e1", Undefined},
        d \in {<<maxAgeMs, staleWhileRevalidateMs>>, <<maxAgeMs + 1, 1>>} }

InitItems ==
    {NoItem, EmptyStr, Garbage, JsonNull}
    \cup { JSONstringify(e) : e \in InitEntries }
    \cup { Pretty(JSONstringify(CacheEntry("p1", 0, maxAgeMs, staleWhileRevalidateMs, "e1"))) }

Init ==
    /\ now = 0
    /\ storage \in BOOLEAN
    /\ broken = {}
    /\ item \in (IF storage THEN InitItems ELSE {NoItem})
    /\ memory = Null
    /\ inFlight = 0
    /\ refreshes = {}
    /\ callers = [c \in Callers |-> Idle]
    /\ ret = NoRet
    /\ unhandled = FALSE
    /\ clients = {}

\* ---- refresh: synchronous prefix (client.ts 92-95, 70-74) ---------------
FreeId == CHOOSE i \in 1..MaxRefreshes : \A r \in refreshes : r.id # i

\* The handle of a refresh started with memory tier mem; sig: the caller's
\* AbortSignal was passed. (getItem cannot throw here: refresh reads the
\* storage only when memory is null, and then line 125 has just read it.)
refreshStart_m(mem, sig) ==
    [id |-> FreeId, prior |-> mem,
     ifNoneMatch |-> (IF mem = Null THEN Undefined ELSE mem.etag),
     signal |-> sig]
refreshStart(mem, sig) ==
    LET prior == IF mem # Null THEN mem ELSE loadFromStorage
    IN [id |-> FreeId, prior |-> prior,
        ifNoneMatch |-> (IF prior = Null THEN Undefined ELSE prior.etag),
        signal |-> sig]

\* ---- single-flight coordinator -------------------------------------------
\* line 132, if (!inFlight): a stale read starts a refresh
backgroundIdle_m == TRUE
backgroundIdle == inFlight = 0

\* line 141, if (inFlight) return inFlight: a blocking read joins
joinInFlight_m == FALSE
joinInFlight == inFlight # 0

\* ---- getPublished (client.ts 123-146) -----------------------------------
\* line 128/137, source: fromMemory ? "memory" : "storage"
cacheSource_m(fromMemory) == "memory"
cacheSource(fromMemory) == IF fromMemory THEN "memory" ELSE "storage"

\* the stored item after line 127 promoted the entry read from the storage
\* (Null: nothing was promoted): memory is assigned, no setItem is called
itemAfterRead_m(cached) == IF cached # Null THEN saveToStorage(cached) ELSE item
itemAfterRead(cached) == item

getPublished(c, force, sig) ==
    /\ callers[c].st = "idle"
    /\ LET fromMemory == memory # Null
           cached == IF fromMemory THEN memory ELSE loadFromStorage
           src == cacheSource(fromMemory)
           mem1 == IF cached # Null /\ ~force THEN cached ELSE memory
           promoted == IF cached # Null /\ ~force /\ ~fromMemory THEN cached ELSE Null
       IN IF ~fromMemory /\ loadThrows
          THEN \* line 125 throws: the call rejects
               /\ ret' = Return(Failure("storage"))
               /\ UNCHANGED <<memory, item, inFlight, refreshes, callers>>
          ELSE IF cached # Null /\ ~force /\ isFresh(cached)
          THEN /\ memory' = mem1
               /\ item' = itemAfterRead(promoted)
               /\ ret' = Return(Result(cached.value, src, cached.etag))
               /\ UNCHANGED <<inFlight, refreshes, callers>>
          ELSE IF cached # Null /\ ~force /\ isWithinStaleWindow(cached)
          THEN /\ memory' = mem1
               /\ item' = itemAfterRead(promoted)
               /\ ret' = Return(Result(cached.value, src, cached.etag))
               /\ IF backgroundIdle
                  THEN /\ Cardinality(refreshes) < MaxRefreshes
                       /\ LET h == refreshStart(mem1, FALSE)
                          IN /\ refreshes' = refreshes \cup {h}
                             /\ inFlight' = h.id
                  ELSE UNCHANGED <<inFlight, refreshes>>
               /\ UNCHANGED callers
          ELSE /\ memory' = mem1
               /\ item' = itemAfterRead(promoted)
               /\ IF joinInFlight
                  THEN /\ callers' = [callers EXCEPT ![c] = Waiting(inFlight, force)]
                       /\ UNCHANGED <<inFlight, refreshes>>
                  ELSE /\ Cardinality(refreshes) < MaxRefreshes
                       /\ LET h == refreshStart(mem1, sig)
                          IN /\ refreshes' = refreshes \cup {h}
                             /\ inFlight' = h.id
                             /\ callers' = [callers EXCEPT ![c] = Waiting(h.id, force)]
               /\ UNCHANGED ret
    /\ UNCHANGED <<now, storage, broken, unhandled, clients>>

\* ---- responses of the network capability --------------------------------
\* status 0: the fetch promise rejects (body names the error); otherwise an
\* HTTP response with its etag header (Undefined when absent) and its body.
Malformed == "malformed"
Responses ==
    { [status |-> 200, etag |-> e, body |-> b] :
        e \in {"e2", Undefined}, b \in Payloads \cup {Malformed} }
    \cup { [status |-> 304, etag |-> e, body |-> Undefined] : e \in {"e2", Undefined} }
    \cup { [status |-> 500, etag |-> Undefined, body |-> Undefined] }
    \cup { [status |-> 0, etag |-> Undefined, body |-> b] : b \in {"TypeError", "AbortError"} }

\* ---- fetchNetwork after the await (client.ts 76-88) ---------------------
\* A not-modified result has no data property: reading it gives undefined.
fetchNetwork(ifNoneMatch, res) ==
    IF res.status = 0 THEN [kind |-> "throw", data |-> Undefined, etag |-> res.body]
    ELSE IF res.status = 304
    THEN [kind |-> "not-modified", data |-> Undefined,
          etag |-> (IF res.etag # Undefined THEN res.etag ELSE ifNoneMatch)]
    ELSE IF res.status # 200 THEN [kind |-> "throw", data |-> Undefined, etag |-> "HttpError"]
    ELSE IF res.body = Malformed THEN [kind |-> "throw", data |-> Undefined, etag |-> "SyntaxError"]
    ELSE [kind |-> "ok", data |-> res.body, etag |-> res.etag]

\* ---- refresh after the await (client.ts 97-120) -------------------------
\* The entry refresh writes for fetch result r, or Null when refresh rejects.
refreshEntry_m(prior, r) ==
    IF r.kind = "throw" THEN Null
    ELSE CacheEntry(r.data, now, maxAgeMs, staleWhileRevalidateMs, r.etag)
refreshEntry(prior, r) ==
    IF r.kind = "throw" THEN Null
    ELSE IF r.kind = "not-modified" /\ prior # Null
    THEN [prior EXCEPT !.fetchedAtMs = now,
                       !.maxAgeMs = maxAgeMs,
                       !.staleWhileRevalidateMs = staleWhileRevalidateMs,
                       !.etag = IF r.etag # Undefined THEN r.etag ELSE prior.etag]
    ELSE CacheEntry(r.data, now, maxAgeMs, staleWhileRevalidateMs, r.etag)

refreshResult_m(prior, r) ==
    IF r.kind = "throw"
    THEN (IF prior # Null THEN Result(prior.value, "memory", prior.etag) ELSE Failure(r.etag))
    ELSE LET e == refreshEntry(prior, r)
         IN Result(e.value,
                   IF r.kind = "not-modified" /\ prior # Null THEN "network-304" ELSE "network",
                   e.etag)
refreshResult(prior, r) ==
    IF r.kind = "throw" THEN Failure(r.etag)
    ELSE LET e == refreshEntry(prior, r)
         IN Result(e.value,
                   IF r.kind = "not-modified" /\ prior # Null THEN "network-304" ELSE "network",
                   e.etag)

WaitersOf(h) == { c \in Callers : callers[c].st = "waiting" /\ callers[c].on = h.id }

\* The handle h settles with res after a response of the given status: the
\* finally callback clears the marker, every caller that holds the handle
\* observes res, and a rejection that nobody holds is unhandled.
Settle_m(h, status, res) ==
    /\ refreshes' = refreshes \ {h}
    /\ inFlight' = (IF res.ok THEN 0 ELSE inFlight)
    /\ callers' = [c \in Callers |-> IF c \in WaitersOf(h) THEN Idle ELSE callers[c]]
    /\ ret' = [n |-> 1 - ret.n, immediate |-> FALSE, status |-> status, res |-> res]
    /\ unhandled' = (unhandled \/ (~res.ok /\ WaitersOf(h) = {}))
Settle(h, status, res) ==
    /\ refreshes' = refreshes \ {h}
    /\ inFlight' = 0
    /\ callers' = [c \in Callers |-> IF c \in WaitersOf(h) THEN Idle ELSE callers[c]]
    /\ ret' = [n |-> 1 - ret.n, immediate |-> FALSE, status |-> status, res |-> res]
    /\ unhandled' = (unhandled \/ (~res.ok /\ WaitersOf(h) = {}))

\* The fetch of refresh h completes with response res.
Complete(h, res) ==
    /\ h \in refreshes
    /\ (res.status = 0 /\ res.body = "AbortError") => h.signal
    /\ LET r == fetchNetwork(h.ifNoneMatch, res)
           e == refreshEntry(h.prior, r)
       IN /\ memory' = (IF e = Null THEN memory ELSE e)
          /\ item' = (IF e = Null THEN item ELSE saveToStorage(e))
          /\ Settle(h, res.status, refreshResult(h.prior, r))
    /\ UNCHANGED <<now, storage, broken, clients>>

\* ---- clearCache (client.ts 148-157) -------------------------------------
\* the item after storage.removeItem(key); a throwing removeItem is swallowed
removeItem_m(it) == it
removeItem(it) == IF storage /\ "remove" \notin broken THEN NoItem ELSE it

clearCache_m ==
    /\ memory' = Null
    /\ item' = removeItem(item)
    /\ inFlight' = 0
    /\ UNCHANGED <<now, storage, broken, refreshes, callers, ret, unhandled, clients>>
clearCache ==
    /\ memory' = Null
    /\ item' = removeItem(item)
    /\ UNCHANGED <<now, storage, broken, inFlight, refreshes, callers, ret, unhandled, clients>>

\* ---- clock --------------------------------------------------------------
Tick ==
    /\ now < MaxTime
    /\ now' = now + 1
    /\ UNCHANGED <<storage, broken, item, memory, inFlight, refreshes, callers, ret, unhandled, clients>>

Next ==
    \/ \E c \in Callers, force \in BOOLEAN, sig \in BOOLEAN : getPublished(c, force, sig)
    \/ \E h \in refreshes, res \in Responses : Complete(h, res)
    \/ clearCache
    \/ Tick

\* A client whose storage works (or that has none).
Spec == Init /\ [][Next]_vars

\* ---- the same client over a storage some of whose operations throw ------
FaultItems ==
    {NoItem, Garbage, JSONstringify(CacheEntry("p1", 0, maxAgeMs, staleWhileRevalidateMs, "e1"))}

InitFault ==
    /\ now = 0
    /\ storage = TRUE
    /\ broken \in {{"get"}, {"set"}, {"remove"}, {"get", "set", "remove"}}
    /\ item \in FaultItems
    /\ memory = Null
    /\ inFlight = 0
    /\ refreshes = {}
    /\ callers = [c \in Callers |-> Idle]
    /\ ret = NoRet
    /\ unhandled = FALSE
    /\ clients = {}

SpecFault == InitFault /\ [][Next]_vars

\* ---- cache keys of client instances (client.ts 32-42) --------------------
\* An optional option is << >> when absent and <<s>> when it is the string s.
\* new URL(endpoint) splits the endpoint into origin, pathname and search.
Endpoints ==
    { [origin |-> "https://a.io", pathname |-> "/f", search |-> ""],
      [origin |-> "https://b.io", pathname |-> "/f", search |-> "?x=1"] }
SiteIds == {"s1", "s2"}
Versions == {<< >>, <<"">>, <<"0">>, <<"1">>}
Prefixes == {<< >>, <<"px">>}
Options ==
    [endpoint : Endpoints, siteId : SiteIds, version : Versions, cacheKeyPrefix : Prefixes]

cacheKey(opts) ==
    LET prefix == IF opts.cacheKeyPrefix = << >> THEN "elevate_site_content"
                  ELSE opts.cacheKeyPrefix[1]
        truthy == opts.version # << >> /\ opts.version[1] # ""
        versionPart == IF truthy THEN "v:" \o opts.version[1] ELSE "v:0"
    IN prefix \o ":" \o opts.endpoint.origin \o opts.endpoint.pathname
              \o ":" \o opts.siteId \o ":" \o versionPart

createSiteContentClient(options) ==
    /\ Cardinality(clients) < MaxClients
    /\ clients' = clients \cup {[options |-> options, key |-> cacheKey(options)]}
    /\ UNCHANGED <<now, storage, broken, item, memory, inFlight, refreshes, callers, ret, unhandled>>

NextKey == \E options \in Options : createSiteContentClient(options)

SpecKey == Init /\ [][NextKey]_vars

\* ==== properties ==========================================================
\* what a read finds: the memory entry, else the parsed stored entry
CachedEntry == IF memory # Null THEN memory ELSE loadFromStorage
Age(entry) == now - entry.fetchedAtMs

\* this step is a call that returned without awaiting
ImmediateReturn == ret'.n # ret.n /\ ret'.immediate
\* this step settled a refresh handle
Settled == ret'.n # ret.n /\ ~ret'.immediate
\* in this step caller c started to wait on a handle
Blocks(c) == callers[c].st = "idle" /\ callers'[c].st = "waiting"
\* this step is a getPublished call without forceRefresh
ReadCall == ImmediateReturn \/ \E c \in Callers : Blocks(c) /\ ~callers'[c].force
\* this step is a getPublished({forceRefresh: true}) call
ForcedCall == \E c \in Callers : Blocks(c) /\ callers'[c].force

\* C1: at most one refresh network call is outstanding at any time, under
\* every interleaving of reads, forced reads, clearCache and completions.
C1_AtMostOneOutstanding == Cardinality(refreshes) <= 1

C1_Witness ==
    /\ Cardinality(refreshes) = 1
    /\ memory # Null
    /\ \E c \in Callers : callers[c].st = "waiting"
    /\ \E c \in Callers : callers[c].st = "idle"

\* C2: forced reads issued while a refresh is outstanding add no request:
\* the first one issues exactly one, every waiting caller holds the one
\* recorded handle, and all of them are settled by the same settlement.
C2_SingleFlight ==
    /\ [](\A c \in Callers : callers[c].st = "waiting" =>
            /\ callers[c].on = inFlight
            /\ Cardinality(refreshes) = 1
            /\ \E h \in refreshes : h.id = inFlight)
    /\ [][/\ ForcedCall =>
               IF refreshes = {} THEN Cardinality(refreshes') = 1
                                 ELSE refreshes' = refreshes
          /\ (\E c \in Callers : callers[c].st = "waiting" /\ callers'[c].st = "idle") =>
               /\ Settled
               /\ \A c \in Callers : callers'[c].st = "idle"]_vars

C2_Witness ==
    /\ \A c \in Callers : callers[c].st = "waiting" /\ callers[c].force /\ callers[c].on = inFlight
    /\ Cardinality(refreshes) = 1

\* C3: a read (no forceRefresh) of a cached entry with
\* now < fetchedAtMs + maxAgeMs returns that entry's value at once, sends no
\* request and leaves the in-flight marker alone.
C3_FreshRead ==
    [][(ReadCall /\ CachedEntry # Null
          /\ now < CachedEntry.fetchedAtMs + CachedEntry.maxAgeMs) =>
        /\ ImmediateReturn
        /\ ret'.res = Result(CachedEntry.value, ret'.res.source, CachedEntry.etag)
        /\ refreshes' = refreshes
        /\ inFlight' = inFlight]_vars

C3_Witness ==
    /\ ret.immediate /\ ret.res.ok
    /\ memory # Null /\ now < memory.fetchedAtMs + memory.maxAgeMs
    /\ memory.maxAgeMs # maxAgeMs /\ now >= memory.fetchedAtMs + maxAgeMs
    /\ ret.res.data = memory.value
    /\ refreshes = {} /\ inFlight = 0

\* C4: a read of a cached entry with maxAgeMs < now - fetchedAtMs <
\* maxAgeMs + swrMs returns the cached value at once, and after it exactly one
\* request is outstanding: the one this read issued when none was in flight.
C4_StaleWhileRevalidate ==
    [][(ReadCall /\ CachedEntry # Null
          /\ CachedEntry.maxAgeMs < Age(CachedEntry)
          /\ Age(CachedEntry) < CachedEntry.maxAgeMs + CachedEntry.staleWhileRevalidateMs) =>
        /\ ImmediateReturn
        /\ ret'.res.ok /\ ret'.res.data = CachedEntry.value
        /\ callers' = callers
        /\ Cardinality(refreshes') = 1
        /\ IF inFlight = 0 THEN refreshes \subseteq refreshes' /\ refreshes' # refreshes
                           ELSE refreshes' = refreshes]_vars

C4_Witness ==
    /\ ret.immediate /\ ret.res.ok
    /\ memory # Null /\ memory.maxAgeMs < Age(memory)
    /\ Age(memory) < memory.maxAgeMs + memory.staleWhileRevalidateMs
    /\ ret.res.data = memory.value
    /\ Cardinality(refreshes) = 1
    /\ \A c \in Callers : callers[c].st = "idle"

\* C5: a read of a cached entry with now - fetchedAtMs > maxAgeMs + swrMs
\* does not return at once: the caller waits on a refresh whose request is
\* outstanding, and a waiting caller is released only by a settlement, whose
\* value is the entry the refresh has just written, not the expired one.
C5_ExpiredBlocks ==
    [][/\ (ReadCall /\ CachedEntry # Null
             /\ Age(CachedEntry) > CachedEntry.maxAgeMs + CachedEntry.staleWhileRevalidateMs) =>
            /\ ~ImmediateReturn
            /\ \E h \in refreshes' : h.id = inFlight'
       /\ \A c \in Callers : (callers[c].st = "waiting" /\ callers'[c] # callers[c]) =>
            /\ Settled
            /\ ret'.res.ok =>
                 /\ ret'.res.source \in {"network", "network-304"}
                 /\ memory' # Null /\ memory'.fetchedAtMs = now
                 /\ ret'.res.data = memory'.value]_vars

C5_Witness ==
    /\ memory # Null
    /\ Age(memory) > memory.maxAgeMs + memory.staleWhileRevalidateMs
    /\ \E c \in Callers : callers[c].st = "waiting" /\ ~callers[c].force
    /\ Cardinality(refreshes) = 1

\* C6: a refresh that began with a prior entry and receives 304 resolves
\* with the prior payload and source "network-304"; the cache keeps that
\* payload and its fetchedAtMs becomes the current time.
C6_NotModifiedReuse ==
    [][\A h \in refreshes :
         (h \notin refreshes' /\ Settled /\ ret'.status = 304 /\ h.prior # Null) =>
            /\ ret'.res.ok
            /\ ret'.res.data = h.prior.value
            /\ ret'.res.source = "network-304"
            /\ memory' # Null
            /\ memory'.value = h.prior.value
            /\ memory'.fetchedAtMs = now
            /\ storage => safeJsonParse(item') = memory']_vars

C6_Witness ==
    /\ ~ret.immediate /\ ret.status = 304 /\ ret.res.ok
    /\ ret.res.source = "network-304"
    /\ memory # Null /\ memory.value = ret.res.data /\ memory.value \in Payloads
    /\ memory.fetchedAtMs = now /\ now > 0

\* C7: a refresh that began with no prior entry and receives 304 fails and
\* writes no entry to either tier.
C7_NotModifiedWithoutPriorFails ==
    [][\A h \in refreshes :
         (h \notin refreshes' /\ Settled /\ ret'.status = 304 /\ h.prior = Null) =>
            /\ ~ret'.res.ok
            /\ memory' = memory
            /\ item' = item]_vars

\* C8: the failure of a background refresh nobody joined is captured: no
\* rejected promise is left without a handler.
C8_NoUnhandledRejection == ~unhandled

\* C9: a throwing storage operation never fails a getPublished call.
C9_PersistenceNeverPropagates == ret.res # Failure("storage")

\* C10: with an empty memory tier, a read that finds an unparseable string in
\* the storage behaves as with no stored entry: it blocks on a refresh that
\* has no prior entry and sends no if-none-match, and no error is returned.
C10_CorruptIsAbsent ==
    [][(memory = Null /\ storage /\ item = Garbage /\ (ReadCall \/ ForcedCall)) =>
        /\ ret' = ret
        /\ memory' = Null
        /\ \E c \in Callers : Blocks(c)
        /\ \E h \in refreshes' : h.id = inFlight'
        /\ \A h \in refreshes' : h.prior = Null /\ h.ifNoneMatch = Undefined]_vars

C10_Witness ==
    /\ memory = Null /\ storage /\ item = Garbage
    /\ Cardinality(refreshes) = 1
    /\ \E c \in Callers : callers[c].st = "waiting" /\ ~callers[c].force

\* in this step clearCache emptied a tier that held something
Clears == (memory # Null /\ memory' = Null) \/ (item # NoItem /\ item' = NoItem)
\* the refreshes started in this step
Started == refreshes' \ refreshes

\* C11: with an empty memory tier and a fresh serialized entry in the storage,
\* a read returns that entry's payload with source "storage" and sends no
\* request; the entry is then in memory, and a read of a fresh memory entry
\* returns source "memory".
C11_StorageThenMemory ==
    [][(ReadCall /\ CachedEntry # Null
          /\ now < CachedEntry.fetchedAtMs + CachedEntry.maxAgeMs) =>
        /\ ImmediateReturn
        /\ refreshes' = refreshes
        /\ memory' = CachedEntry
        /\ ret'.res = Result(CachedEntry.value,
                             IF memory = Null THEN "storage" ELSE "memory",
                             CachedEntry.etag)]_vars

C11_Witness ==
    /\ ret.immediate /\ ret.res.ok /\ ret.res.source = "storage"
    /\ memory # Null /\ now < memory.fetchedAtMs + memory.maxAgeMs
    /\ ret.res.data = memory.value
    /\ refreshes = {} /\ inFlight = 0

\* C12: clearCache leaves the memory tier and the stored record empty, and
\* clearing again changes nothing.
C12_ClearIdempotent ==
    /\ [](removeItem(removeItem(item)) = removeItem(item))
    /\ [][Clears =>
            /\ memory' = Null
            /\ storage => item' = NoItem
            /\ removeItem(item') = item'
            /\ UNCHANGED <<inFlight, refreshes, callers, ret, unhandled>>]_vars

C12_Witness ==
    /\ storage /\ memory = Null /\ item = NoItem
    /\ ~ret.immediate /\ ret.res.ok
    /\ refreshes = {}

\* C13: clearCache leaves the in-flight marker and the outstanding request
\* alone, and a refresh that completes successfully afterwards writes its
\* entry to both tiers.
C13_ClearKeepsRefresh ==
    [][/\ Clears => (inFlight' = inFlight /\ refreshes' = refreshes /\ callers' = callers)
       /\ (Settled /\ ret'.res.ok) =>
            /\ memory' # Null
            /\ memory'.value = ret'.res.data
            /\ storage => safeJsonParse(item') = memory']_vars

C13_Witness ==
    /\ storage /\ memory = Null /\ item = NoItem
    /\ inFlight # 0
    /\ \E h \in refreshes : h.id = inFlight /\ h.prior # Null

\* C14: when the caller that started a refresh cancels and another caller has
\* joined the refresh, the joined caller still receives the refresh's result
\* (callers that joined cannot cancel: only the starter's signal reaches fetch).
C14_JoinedSurviveCancel ==
    [][\A h \in refreshes :
         (h \notin refreshes' /\ Settled /\ Cardinality(WaitersOf(h)) >= 2) =>
            ret'.res # Failure("AbortError")]_vars

\* C15: identical configurations give identical keys, and configurations that
\* differ only in version (absent or any string) give different keys.
C15_KeyByVersion ==
    \A a, b \in clients :
        /\ a.options = b.options => a.key = b.key
        /\ (/\ a.options.version # b.options.version
            /\ [a.options EXCEPT !.version = b.options.version] = b.options)
           => a.key # b.key

\* C16: the marker is cleared when its refresh settles, on failure as on
\* success: it never names a settled handle, and a blocking read that follows
\* a settlement starts a new request.
C16_MarkerCleared ==
    /\ [](inFlight # 0 => \E h \in refreshes : h.id = inFlight)
    /\ [][/\ Settled => (inFlight' = 0 /\ refreshes' = {})
          /\ \A c \in Callers : (Blocks(c) /\ refreshes = {}) =>
               /\ Cardinality(Started) = 1
               /\ \A h \in Started : h.id = callers'[c].on /\ h.id = inFlight']_vars

C16_Witness ==
    /\ ~ret.immediate /\ ~ret.res.ok /\ ret.status \in {0, 500}
    /\ Cardinality(refreshes) = 1
    /\ \E c \in Callers : callers[c].st = "waiting" /\ callers[c].on = inFlight

\* C17: a read without forceRefresh that finds the memory tier empty and an
\* entry in the storage copies that entry, unchanged, into the memory tier
\* and writes nothing to the storage.
C17_PromotionPreserves ==
    [][(ReadCall /\ memory = Null /\ loadFromStorage # Null) =>
        /\ memory' = safeJsonParse(item)
        /\ item' = item]_vars

C17_Witness ==
    /\ storage /\ item.t = "pretty"
    /\ memory = safeJsonParse(item)
    /\ now > memory.fetchedAtMs

\* C18: when the request of a refresh fails (the fetch rejects, or a status
\* that is neither 2xx nor 304), every caller waiting on it receives the
\* failure, and no cached entry is returned or written in its place.
C18_FailurePropagates ==
    [][\A h \in refreshes :
         (h \notin refreshes' /\ Settled /\ ret'.status \in {0, 500}) =>
            /\ ~ret'.res.ok
            /\ \A c \in WaitersOf(h) : callers'[c].st = "idle"
            /\ memory' = memory
            /\ item' = item]_vars

C18_Witness ==
    /\ ~ret.immediate /\ ~ret.res.ok /\ ret.status = 500
    /\ memory # Null
    /\ \A c \in Callers : callers[c].st = "idle"
    /\ ~unhandled

\* C19: a refresh sends as if-none-match the etag of the entry current when
\* it starts (memory, else storage), and none when there is no entry or the
\* entry has no etag; with both tiers cleared it sends none.
C19_ConditionalToken ==
    [][\A h \in Started :
         /\ h.ifNoneMatch = (IF CachedEntry = Null THEN Undefined ELSE CachedEntry.etag)
         /\ (memory = Null /\ item = NoItem) => h.ifNoneMatch = Undefined]_vars

C19_Witness ==
    /\ memory = Null /\ storage /\ item.t = "object"
    /\ \E h \in refreshes : h.ifNoneMatch = "e1"

\* C20: for a client whose storage works, whenever the memory tier holds an
\* entry the storage holds an equal one.
C20_TiersAgree ==
    (storage /\ memory # Null) => safeJsonParse(item) = memory

C20_Witness ==
    /\ storage /\ memory # Null
    /\ ~ret.immediate /\ ret.res.ok /\ ret.res.source = "network"
    /\ safeJsonParse(item) = memory
    /\ memory.fetchedAtMs = now /\ now > 0
====
